---- MODULE Spec2Model ----
(***************************************************************************)
(* A model of package utils (slicemanip.go): the slice-based operations    *)
(* Map, Filter, Find, FlatMap and Chunk, and the iter.Seq-based operations *)
(* IterMap, IterFilter, IterFind, ToSlice and FromSlice.                    *)
(*                                                                         *)
(* The element type T is int.  A slice is a header over a backing array;   *)
(* the caller's slice covers the whole of its array, whose contents are    *)
(* the variable slice.  An iter.Seq is a closure: driving it runs the      *)
(* nested for-range loops on one call stack, which the model follows one   *)
(* call or return at a time.                                               *)
(***************************************************************************)
EXTENDS Integers, Sequences, FiniteSets, TLC

\* ------------------------------------------------------------------ bounds

\* The longest input slice.
MaxLen == 3
\* The deepest nesting of IterMap / IterFilter around FromSlice.
MaxDepth == 2
\* A direct for-range loop over a sequence breaks after at most MaxTake elements.
MaxTake == 2

\* The elements the inputs are drawn from (T = int).
Elems == {0, 1}

\* Every input slice: all sequences over Elems of length 0..MaxLen.
Inputs == UNION {[1..n -> Elems] : n \in 0..MaxLen}

\* The caller-supplied functions f : int -> int and predicates p : int -> bool.
MapFns == {"inc", "double"}
Preds == {"even", "pos"}

Apply(f, x) == IF f = "inc" THEN x + 1 ELSE x * 2

Holds(p, x) == IF p = "even" THEN x % 2 = 0 ELSE x > 0

\* ------------------------------------------------------------- the state

VARIABLES
    slice,      \* the contents of the caller's slice (its backing array)
    chain,      \* the wrappers around FromSlice(slice), innermost first
    term,       \* the terminal consumer driving the outermost sequence
    pc,         \* where the program is
    idx,        \* FromSlice's loop: how many elements of slice it has yielded
    level,      \* the frame in control: 0 FromSlice, 1..Len(chain) a wrapper,
                \* Len(chain)+1 the terminal consumer's loop body
    cur,        \* the value being passed to yield
    ret,        \* the value yield is returning
    log,        \* every yield of FromSlice (lvl 0) and every call of a mapping
                \* function or predicate (lvl of its frame), in order
    acc,        \* the result slice ToSlice, or the driving loop, is building
    found,      \* IterFind's result and found
    stopped,    \* the terminal consumer's loop body has returned false
    status,     \* of the driven chain: "running", "stopped", "exhausted"
    op,         \* the slice-based operation that was called, with its arguments
    res,        \* what that call returned, or the panic that ended it
    fresh,      \* the contents of the element array that call allocated
    writes      \* how many elements the caller has overwritten after the call

lazyVars == <<chain, term, idx, level, cur, ret, log, acc, found, stopped, status>>

eagerVars == <<op, res, fresh, writes>>

vars == <<slice, pc, lazyVars, eagerVars>>

\* The zero value of T (var result T, var zero T).
Zero == 0

NoTerm == [kind |-> "none", fn |-> "none", k |-> 0]

NoOp == [name |-> "none", fn |-> "none", size |-> 0]

\* A call's outcome: the panic message ("" when it returned), whether the
\* result's storage was allocated, the slice headers returned (one for a
\* []U, one per chunk for a [][]T), and Find's value and found.
NoRes == [panic |-> "", alloc |-> FALSE, hdrs |-> <<>>, val |-> Zero, ok |-> FALSE]

Init ==
    /\ slice \in Inputs
    /\ chain = <<>>
    /\ term = NoTerm
    /\ pc = "idle"
    /\ idx = 0
    /\ level = 0
    /\ cur = Zero
    /\ ret = TRUE
    /\ log = <<>>
    /\ acc = <<>>
    /\ found = [result |-> Zero, found |-> FALSE]
    /\ stopped = FALSE
    /\ status = "idle"
    /\ op = NoOp
    /\ res = NoRes
    /\ fresh = <<>>
    /\ writes = 0

\* ------------------------------------------- constructing a lazy sequence

\* A faulty variant: the constructor already calls the function once.
IterMapEager(l, f) == Append(l, [lvl |-> 1, i |-> 0, arg |-> Zero])

\* What constructing a wrapper does to the log of calls: nothing, it only
\* returns a closure.
Construct(l, f) == l

\* FromSlice(slice): returns the closure; nothing is read.
FromSlice ==
    /\ pc = "idle"
    /\ pc' = "built"
    /\ chain' = <<>>
    /\ UNCHANGED <<slice, term, idx, level, cur, ret, log, acc, found, stopped, status, eagerVars>>

\* IterMap(seq, f): returns the closure around seq.
IterMap(f) ==
    /\ pc = "built"
    /\ Len(chain) < MaxDepth
    /\ chain' = Append(chain, [kind |-> "map", fn |-> f])
    /\ log' = Construct(log, f)
    /\ UNCHANGED <<slice, term, pc, idx, level, cur, ret, acc, found, stopped, status, eagerVars>>

\* IterFilter(seq, predicate): returns the closure around seq.
IterFilter(p) ==
    /\ pc = "built"
    /\ Len(chain) < MaxDepth
    /\ chain' = Append(chain, [kind |-> "filter", fn |-> p])
    /\ log' = Construct(log, p)
    /\ UNCHANGED <<slice, term, pc, idx, level, cur, ret, acc, found, stopped, status, eagerVars>>

\* ------------------------------------------------- driving: the terminals

\* Entering the outermost closure enters each wrapper's for-range loop in
\* turn, down to FromSlice's loop; no function or predicate is called on the
\* way.

\* ToSlice(seq): result := []T{}; for a := range seq.
ToSlice ==
    /\ pc = "built"
    /\ term' = [kind |-> "ToSlice", fn |-> "none", k |-> 0]
    /\ acc' = <<>>
    /\ pc' = "src"
    /\ status' = "running"
    /\ UNCHANGED <<slice, chain, idx, level, cur, ret, log, found, stopped, eagerVars>>

\* IterFind(seq, predicate): var result T; found := false; for a := range seq.
IterFind(p) ==
    /\ pc = "built"
    /\ term' = [kind |-> "IterFind", fn |-> p, k |-> 0]
    /\ found' = [result |-> Zero, found |-> FALSE]
    /\ pc' = "src"
    /\ status' = "running"
    /\ UNCHANGED <<slice, chain, idx, level, cur, ret, log, acc, stopped, eagerVars>>

\* A caller's own loop, for a := range seq, that collects a and breaks once
\* it has k elements.
Range(k) ==
    /\ pc = "built"
    /\ term' = [kind |-> "range", fn |-> "none", k |-> k]
    /\ pc' = "src"
    /\ status' = "running"
    /\ UNCHANGED <<slice, chain, idx, level, cur, ret, log, acc, found, stopped, eagerVars>>

\* ------------------------------------------------------ FromSlice's loop

\* for _, v := range slice { if !yield(v) { return } }: the next yield, or
\* the end of the loop, on which every wrapper's loop ends too.
FromSliceLoop ==
    /\ pc = "src"
    /\ IF idx < Len(slice)
       THEN /\ idx' = idx + 1
            /\ cur' = slice[idx + 1]
            /\ log' = Append(log, [lvl |-> 0, i |-> idx + 1, arg |-> slice[idx + 1]])
            /\ level' = 1
            /\ pc' = "yield"
            /\ UNCHANGED status
       ELSE /\ pc' = "done"
            /\ status' = "exhausted"
            /\ UNCHANGED <<idx, cur, log, level>>
    /\ UNCHANGED <<slice, chain, term, ret, acc, found, stopped, eagerVars>>

\* A faulty variant: the loop goes on whatever yield returned.
FromSliceIgnoresStop(r) == TRUE

\* Whether FromSlice's loop goes on after yield returned r.
FromSliceContinues(r) == r

\* yield has returned to FromSlice.
FromSliceReturn ==
    /\ pc = "return"
    /\ level = 0
    /\ IF FromSliceContinues(ret)
       THEN pc' = "src" /\ UNCHANGED status
       ELSE pc' = "done" /\ status' = "stopped"
    /\ UNCHANGED <<slice, chain, term, idx, level, cur, ret, log, acc, found, stopped, eagerVars>>

\* ---------------------------------------------------- the wrappers' loops

\* IterMap's loop body: yield(f(a)).
IterMapBody ==
    /\ pc = "yield"
    /\ level \in 1..Len(chain)
    /\ chain[level].kind = "map"
    /\ log' = Append(log, [lvl |-> level, i |-> idx, arg |-> cur])
    /\ cur' = Apply(chain[level].fn, cur)
    /\ level' = level + 1
    /\ UNCHANGED <<slice, chain, term, pc, idx, ret, acc, found, stopped, status, eagerVars>>

\* IterFilter's loop body: if predicate(a) { yield(a) }; a rejected element
\* ends the iteration, and the loop body returns true to the sequence below.
IterFilterBody ==
    /\ pc = "yield"
    /\ level \in 1..Len(chain)
    /\ chain[level].kind = "filter"
    /\ log' = Append(log, [lvl |-> level, i |-> idx, arg |-> cur])
    /\ IF Holds(chain[level].fn, cur)
       THEN /\ level' = level + 1
            /\ UNCHANGED <<pc, ret>>
       ELSE /\ level' = level - 1
            /\ pc' = "return"
            /\ ret' = TRUE
    /\ UNCHANGED <<slice, chain, term, idx, cur, acc, found, stopped, status, eagerVars>>

\* A faulty variant: yield's result is dropped and the loop goes on.
IterMapIgnoresStop(r) == TRUE

\* What a wrapper's loop body returns to the sequence below once its own
\* yield returned r: if !yield(..) { return } makes the body return false,
\* otherwise the iteration ends and the body returns true.
IterMapYielded(r) == r

IterFilterYielded(r) == r

\* yield has returned to a wrapper.
WrapperReturn ==
    /\ pc = "return"
    /\ level \in 1..Len(chain)
    /\ ret' = IF chain[level].kind = "map"
              THEN IterMapYielded(ret)
              ELSE IterFilterYielded(ret)
    /\ level' = level - 1
    /\ UNCHANGED <<slice, chain, term, pc, idx, cur, log, acc, found, stopped, status, eagerVars>>

\* ------------------------------------------- the terminals' loop bodies

\* A faulty variant: the element is put in front.
ToSlicePrepend(result, a) == <<a>> \o result

\* result = append(result, a)
ToSliceAppend(result, a) == Append(result, a)

\* ToSlice's loop body: it never breaks.
ToSliceBody ==
    /\ pc = "yield"
    /\ level = Len(chain) + 1
    /\ term.kind = "ToSlice"
    /\ acc' = ToSliceAppend(acc, cur)
    /\ ret' = TRUE
    /\ pc' = "return"
    /\ level' = Len(chain)
    /\ UNCHANGED <<slice, chain, term, idx, cur, log, found, stopped, status, eagerVars>>

\* A faulty variant: the break is missing.
IterFindNeverBreaks(m) == FALSE

\* Whether IterFind's loop body breaks on a with predicate(a) = m.
IterFindBreaks(m) == m

\* IterFind's loop body: if predicate(a) { result = a; found = true; break }.
IterFindBody ==
    /\ pc = "yield"
    /\ level = Len(chain) + 1
    /\ term.kind = "IterFind"
    /\ log' = Append(log, [lvl |-> level, i |-> idx, arg |-> cur])
    /\ found' = IF Holds(term.fn, cur)
                THEN [result |-> cur, found |-> TRUE]
                ELSE found
    /\ ret' = ~IterFindBreaks(Holds(term.fn, cur))
    /\ stopped' = (stopped \/ ~ret')
    /\ pc' = "return"
    /\ level' = Len(chain)
    /\ UNCHANGED <<slice, chain, term, idx, cur, acc, status, eagerVars>>

\* The caller's loop body: collect a, break once k elements are collected.
RangeBody ==
    /\ pc = "yield"
    /\ level = Len(chain) + 1
    /\ term.kind = "range"
    /\ acc' = Append(acc, cur)
    /\ ret' = (Len(acc') < term.k)
    /\ stopped' = (stopped \/ ~ret')
    /\ pc' = "return"
    /\ level' = Len(chain)
    /\ UNCHANGED <<slice, chain, term, idx, cur, log, found, status, eagerVars>>

\* ------------------------------------------------ the slice-based API

\* A slice header: the array it points into ("slice": the caller's array,
\* "fresh": the array the call allocated) and the half-open range [lo, hi)
\* of that array it covers.
Header(arr, lo, hi) == [arr |-> arr, lo |-> lo, hi |-> hi]

\* The elements a header denotes, read through the arrays' current contents.
View(h) == SubSeq(IF h.arr = "slice" THEN slice ELSE fresh, h.lo + 1, h.hi)

Returned(hdrs) == [panic |-> "", alloc |-> TRUE, hdrs |-> hdrs, val |-> Zero, ok |-> FALSE]

Panicked(msg) == [panic |-> msg, alloc |-> FALSE, hdrs |-> <<>>, val |-> Zero, ok |-> FALSE]

\* A faulty variant: the loop stops one element early.
MapOffByOne(s, f) == [i \in 1..Len(s) |-> IF i = Len(s) THEN Zero ELSE Apply(f, s[i])]

\* Map: result := make([]U, len(slice)); result[i] = f(v).
Map(s, f) == [i \in 1..Len(s) |-> Apply(f, s[i])]

\* A faulty variant: the loop never keeps the first element.
RECURSIVE FilterDropsFirst(_, _, _, _)
FilterDropsFirst(s, p, i, result) ==
    IF i >= Len(s) THEN result
    ELSE FilterDropsFirst(s, p, i + 1,
             IF Holds(p, s[i + 1]) /\ i > 0 THEN Append(result, s[i + 1]) ELSE result)

\* Filter's loop from index i (0-based) on, result being what it has
\* appended so far.
RECURSIVE FilterLoop(_, _, _, _)
FilterLoop(s, p, i, result) ==
    IF i >= Len(s) THEN result
    ELSE FilterLoop(s, p, i + 1,
             IF Holds(p, s[i + 1]) THEN Append(result, s[i + 1]) ELSE result)

\* Filter: result := make([]T, 0); the loop; return result.
Filter(s, p) == FilterLoop(s, p, 0, <<>>)

\* Find's loop from index i on: the first v with predicate(v), or zero, false.
RECURSIVE FindLoop(_, _, _)
FindLoop(s, p, i) ==
    IF i >= Len(s) THEN [result |-> Zero, found |-> FALSE]
    ELSE IF Holds(p, s[i + 1]) THEN [result |-> s[i + 1], found |-> TRUE]
    ELSE FindLoop(s, p, i + 1)

Find(s, p) == FindLoop(s, p, 0)

\* The functions f : int -> []int given to FlatMap.
FlatFns == {"dup", "posonly"}

FlatApply(g, x) == IF g = "dup" THEN <<x, x>> ELSE IF x > 0 THEN <<x>> ELSE <<>>

\* FlatMap's loop: result = append(result, f(v)...), which copies f(v)'s
\* elements into result's own array.
RECURSIVE FlatMapLoop(_, _, _, _)
FlatMapLoop(s, g, i, result) ==
    IF i >= Len(s) THEN result
    ELSE FlatMapLoop(s, g, i + 1, result \o FlatApply(g, s[i + 1]))

FlatMap(s, g) == FlatMapLoop(s, g, 0, <<>>)

\* int: 32 or 64 bits wide by build, two's complement, wrapping on overflow.
\* The model takes the 32-bit builds (GOARCH=386, arm, ...); at 64 bits the
\* same arithmetic happens at 2^63 - 1.
MaxInt == 2147483647

MinInt == -MaxInt - 1

\* a + b in int, computed without leaving int's range.
Add(a, b) ==
    IF a > 0 /\ b > MaxInt - a THEN (a - MaxInt - 1) + (b - MaxInt - 1)
    ELSE IF a < 0 /\ b < MinInt - a THEN (a + MaxInt + 1) + (b + MaxInt + 1)
    ELSE a + b

\* a / b in int for b > 0: the quotient truncated toward zero.
Quo(a, b) == IF a >= 0 \/ a % b = 0 THEN a \div b ELSE (a \div b) + 1

\* The sizes Chunk is called with.
Sizes == {-MaxInt, -1, 0} \cup (1..(MaxLen + 1)) \cup {MaxInt - 1, MaxInt}

\* Chunk's loop from index i on: end := i + size, capped at len(slice);
\* result = append(result, slice[i:end]); i += size.  n is len(slice).
RECURSIVE ChunkLoop(_, _, _, _)
ChunkLoop(n, size, i, result) ==
    IF ~(i < n) THEN result
    ELSE LET end == IF Add(i, size) > n THEN n ELSE Add(i, size)
         IN  ChunkLoop(n, size, Add(i, size), Append(result, Header("slice", i, end)))

\* A faulty variant: the guard lets size 0 through.
ChunkGuardNegativeOnly(size) == size < 0

\* Chunk's guard: if size <= 0 { panic(...) }.
ChunkGuard(size) == size <= 0

\* Chunk: the guard; make([][]T, 0, (len(slice)+size-1)/size), which panics
\* on a negative capacity; the loop.
Chunk(s, size) ==
    IF ChunkGuard(size) THEN Panicked("chunk size must be greater than 0")
    ELSE IF size = 0 THEN Panicked("runtime error: integer divide by zero")
    ELSE IF Quo(Add(Add(Len(s), size), -1), size) < 0
         THEN Panicked("runtime error: makeslice: cap out of range")
    ELSE Returned(ChunkLoop(Len(s), size, 0, <<>>))

\* The caller calls Map(slice, f).
DoMap(f) ==
    /\ pc = "idle"
    /\ pc' = "returned"
    /\ op' = [name |-> "Map", fn |-> f, size |-> 0]
    /\ fresh' = Map(slice, f)
    /\ res' = Returned(<<Header("fresh", 0, Len(fresh'))>>)
    /\ UNCHANGED <<slice, lazyVars, writes>>

\* The caller calls Filter(slice, p).
DoFilter(p) ==
    /\ pc = "idle"
    /\ pc' = "returned"
    /\ op' = [name |-> "Filter", fn |-> p, size |-> 0]
    /\ fresh' = Filter(slice, p)
    /\ res' = Returned(<<Header("fresh", 0, Len(fresh'))>>)
    /\ UNCHANGED <<slice, lazyVars, writes>>

\* The caller calls FlatMap(slice, g).
DoFlatMap(g) ==
    /\ pc = "idle"
    /\ pc' = "returned"
    /\ op' = [name |-> "FlatMap", fn |-> g, size |-> 0]
    /\ fresh' = FlatMap(slice, g)
    /\ res' = Returned(<<Header("fresh", 0, Len(fresh'))>>)
    /\ UNCHANGED <<slice, lazyVars, writes>>

\* The caller calls Find(slice, p).
DoFind(p) ==
    /\ pc = "idle"
    /\ pc' = "returned"
    /\ op' = [name |-> "Find", fn |-> p, size |-> 0]
    /\ res' = [panic |-> "", alloc |-> FALSE, hdrs |-> <<>>,
               val |-> Find(slice, p).result, ok |-> Find(slice, p).found]
    /\ UNCHANGED <<slice, lazyVars, fresh, writes>>

\* The caller calls Chunk(slice, size).
DoChunk(size) ==
    /\ pc = "idle"
    /\ pc' = "returned"
    /\ op' = [name |-> "Chunk", fn |-> "none", size |-> size]
    /\ res' = Chunk(slice, size)
    /\ UNCHANGED <<slice, lazyVars, fresh, writes>>

\* The caller's accesses after the call returned.
MaxWrites == 1

\* result[k][j] = v (k = 0 for a []U result): a store through header k.
WriteResult(k, j, v) ==
    /\ pc = "returned"
    /\ writes < MaxWrites
    /\ k \in DOMAIN res.hdrs
    /\ j \in 1..(res.hdrs[k].hi - res.hdrs[k].lo)
    /\ writes' = writes + 1
    /\ IF res.hdrs[k].arr = "slice"
       THEN /\ slice' = [slice EXCEPT ![res.hdrs[k].lo + j] = v]
            /\ UNCHANGED fresh
       ELSE /\ fresh' = [fresh EXCEPT ![res.hdrs[k].lo + j] = v]
            /\ UNCHANGED slice
    /\ UNCHANGED <<pc, lazyVars, op, res>>

\* slice[j] = v: a store into the input.
WriteInput(j, v) ==
    /\ pc = "returned"
    /\ writes < MaxWrites
    /\ j \in 1..Len(slice)
    /\ writes' = writes + 1
    /\ slice' = [slice EXCEPT ![j] = v]
    /\ UNCHANGED <<pc, lazyVars, op, res, fresh>>

NextEager ==
    \/ \E f \in MapFns : DoMap(f)
    \/ \E p \in Preds : DoFilter(p)
    \/ \E g \in FlatFns : DoFlatMap(g)
    \/ \E p \in Preds : DoFind(p)
    \/ \E size \in Sizes : DoChunk(size)
    \/ \E k \in 1..MaxLen, j \in 1..(2 * MaxLen), v \in Elems : WriteResult(k, j, v)
    \/ \E j \in 1..MaxLen, v \in Elems : WriteInput(j, v)

NextLazy ==
    \/ FromSlice
    \/ \E f \in MapFns : IterMap(f)
    \/ \E p \in Preds : IterFilter(p)
    \/ ToSlice
    \/ \E p \in Preds : IterFind(p)
    \/ \E k \in 1..MaxTake : Range(k)
    \/ FromSliceLoop
    \/ FromSliceReturn
    \/ IterMapBody
    \/ IterFilterBody
    \/ WrapperReturn
    \/ ToSliceBody
    \/ IterFindBody
    \/ RangeBody

Next == NextEager \/ NextLazy

Spec == Init /\ [][Next]_vars

\* -------------------------------------------------------------- properties

\* The arguments of the calls logged at frame l, in order (l = 0: the
\* elements FromSlice yielded).
RECURSIVE ArgsFrom(_, _, _)
ArgsFrom(l, a, out) ==
    IF a > Len(log) THEN out
    ELSE ArgsFrom(l, a + 1, IF log[a].lvl = l THEN Append(out, log[a].arg) ELSE out)

Args(l) == ArgsFrom(l, 1, <<>>)

\* C1. In a chain of at least two wrappers around FromSlice(s), once the
\* terminal consumer has returned false every later step is a return toward
\* FromSlice or the end of the drive: FromSlice yields nothing more and no
\* mapping function or predicate is called again.
StopEndsTheDrive ==
    [][(Len(chain) >= 2 /\ stopped) =>
          /\ log' = log
          /\ idx' = idx
          /\ \/ pc' = "return" /\ level' = level - 1 /\ ret' = FALSE
             \/ pc' = "done" /\ status' = "stopped"]_vars

\* C1's case: a drive through two wrappers that the consumer stopped, ended
\* with elements of s left unyielded.
StopEndsTheDriveWitness ==
    /\ Len(chain) >= 2
    /\ stopped
    /\ pc = "done"
    /\ status = "stopped"
    /\ idx < Len(slice)

\* The indices of s whose mapped element p accepts.
Accepted(s, f, p) == {i \in 1..Len(s) : Holds(p, Apply(f, s[i]))}

\* The index of the element of s that gives the k-th accepted element.
KthAccepted(s, f, p, k) ==
    CHOOSE j \in Accepted(s, f, p) :
        Cardinality({i \in Accepted(s, f, p) : i <= j}) = k

\* C2. IterFilter(IterMap(FromSlice(s), f), p) driven by a consumer that
\* returns false on the k-th element it receives: f has been called k times
\* plus once per mapped element p rejected, that is once on each element of
\* s up to the one that gave the k-th accepted element, in order, and on
\* none after it.
MapCallsUpToStop ==
    (/\ Len(chain) = 2
     /\ chain[1].kind = "map"
     /\ chain[2].kind = "filter"
     /\ term.kind = "range"
     /\ stopped)
    => LET f == chain[1].fn
           p == chain[2].fn
           calls == Args(1)
           rejected == {i \in 1..Len(calls) : ~Holds(p, Apply(f, calls[i]))}
       IN  /\ Cardinality(Accepted(slice, f, p)) >= term.k
           /\ Len(calls) = term.k + Cardinality(rejected)
           /\ calls = SubSeq(slice, 1, KthAccepted(slice, f, p, term.k))
           /\ idx = KthAccepted(slice, f, p, term.k)

\* C2's case: the consumer stopped on its k-th element, after a rejection,
\* with an element of s left.
MapCallsUpToStopWitness ==
    /\ Len(chain) = 2
    /\ chain[1].kind = "map"
    /\ chain[2].kind = "filter"
    /\ term.kind = "range"
    /\ stopped
    /\ pc = "done"
    /\ Len(Args(1)) > term.k
    /\ idx < Len(slice)

\* The chunks as sequences of elements, in order.
Chunks == [k \in DOMAIN res.hdrs |-> View(res.hdrs[k])]

RECURSIVE Concat(_, _)
Concat(ss, k) == IF k > Len(ss) THEN <<>> ELSE ss[k] \o Concat(ss, k + 1)

\* C3. Chunk(s, n) with n > 0 returns chunks whose concatenation is s, all
\* of length n but the last, which has 1..n elements; there are
\* ceil(len(s)/n) of them, none for an empty s.
ChunkPartitions ==
    (op.name = "Chunk" /\ op.size > 0 /\ writes = 0)
    => /\ res.panic = ""
       /\ Concat(Chunks, 1) = slice
       /\ \A k \in DOMAIN Chunks :
             /\ k < Len(Chunks) => Len(Chunks[k]) = op.size
             /\ Len(Chunks[k]) \in 1..op.size
       /\ Len(Chunks) = (IF Len(slice) = 0 THEN 0 ELSE ((Len(slice) - 1) \div op.size) + 1)

\* C4. Chunk(s, size) with size <= 0 panics with the invalid-argument
\* message for every s, before the result is allocated; nothing is returned
\* and s is as it was.
ChunkRejectsBadSize ==
    (op.name = "Chunk" /\ op.size <= 0 /\ writes = 0)
    => /\ res.panic = "chunk size must be greater than 0"
       /\ ~res.alloc
       /\ res.hdrs = <<>>
       /\ fresh = <<>>

\* C4's case: Chunk was called with size 0 on a non-empty slice.
ChunkRejectsBadSizeWitness ==
    /\ op.name = "Chunk"
    /\ op.size = 0
    /\ Len(slice) > 0
    /\ pc = "returned"

\* C5. After Map, Filter, FlatMap or Chunk returned, a store into an element
\* of the result leaves the input's elements as they are, and a store into
\* the input leaves the result's elements as they are; the call itself
\* leaves the input as it is.
ResultSharesNothing ==
    [][/\ (\E f \in MapFns : DoMap(f)) => slice' = slice
       /\ (\E p \in Preds : DoFilter(p)) => slice' = slice
       /\ (\E g \in FlatFns : DoFlatMap(g)) => slice' = slice
       /\ (\E size \in Sizes : DoChunk(size)) => slice' = slice
       /\ (\E k \in 1..MaxLen, j \in 1..(2 * MaxLen), v \in Elems : WriteResult(k, j, v))
             => slice' = slice
       /\ (\E j \in 1..MaxLen, v \in Elems : WriteInput(j, v))
             => Chunks' = Chunks]_vars

\* C6. ToSlice(FromSlice(s)) = s: ToSlice's loop body never returns false,
\* FromSlice runs to exhaustion and yields every element of s once, in
\* order.
RoundTrip ==
    /\ term.kind = "ToSlice" => (ret = TRUE /\ ~stopped /\ status # "stopped")
    /\ (chain = <<>> /\ term.kind = "ToSlice" /\ pc = "done")
       => /\ acc = slice
          /\ status = "exhausted"
          /\ Args(0) = slice
          /\ idx = Len(slice)

\* C6's case: the round trip of a slice of two different elements is over.
RoundTripWitness ==
    /\ chain = <<>>
    /\ term.kind = "ToSlice"
    /\ pc = "done"
    /\ Len(slice) >= 2
    /\ slice[1] # slice[2]

\* The indices of s whose element satisfies p.
Matches(s, p) == {i \in 1..Len(s) : Holds(p, s[i])}

Least(S) == CHOOSE i \in S : \A j \in S : i <= j

\* C7. IterFind(FromSlice(s), p) returns (s[i], true) for the least i with
\* p(s[i]), p having been called on s[0..i] in order and nothing yielded
\* after s[i], the sequence stopped by the consumer; with no such i it
\* returns (zero, false), p called once on every element, the sequence
\* exhausted.
IterFindFirst ==
    (chain = <<>> /\ term.kind = "IterFind" /\ pc = "done")
    => IF Matches(slice, term.fn) # {}
       THEN LET i == Least(Matches(slice, term.fn))
            IN  /\ found = [result |-> slice[i], found |-> TRUE]
                /\ Args(1) = SubSeq(slice, 1, i)
                /\ Args(0) = SubSeq(slice, 1, i)
                /\ idx = i
                /\ status = "stopped"
       ELSE /\ found = [result |-> Zero, found |-> FALSE]
            /\ Args(1) = slice
            /\ Args(0) = slice
            /\ status = "exhausted"

\* C7's case: IterFind returned the first of two matches, an element left.
IterFindFirstWitness ==
    /\ chain = <<>>
    /\ term.kind = "IterFind"
    /\ pc = "done"
    /\ Cardinality(Matches(slice, term.fn)) >= 2
    /\ Least(Matches(slice, term.fn)) > 1
    /\ found.found

\* The j-th least member of a set of indices.
Nth(S, j) == CHOOSE i \in S : Cardinality({x \in S : x <= i}) = j

EndsElement(a) ==
    \/ log[a].lvl = Len(chain) + 1
    \/ log[a].lvl = Len(chain) /\ term.kind # "IterFind"
    \/ /\ log[a].lvl \in 1..Len(chain)
       /\ chain[log[a].lvl].kind = "filter"
       /\ ~Holds(chain[log[a].lvl].fn, log[a].arg)

\* C9. Constructing a chain calls nothing and yields nothing: until a
\* terminal drives the outermost sequence the log is empty.  In a drive
\* each element goes frame by frame through the chain, and FromSlice
\* yields the next one only when the one before is through.
NoWorkUntilDriven ==
    /\ pc \in {"idle", "built"} => (log = <<>> /\ idx = 0 /\ term = NoTerm)
    /\ \A a \in 1..Len(log) :
          IF log[a].lvl = 0
          THEN /\ log[a].i = Cardinality({b \in 1..a : log[b].lvl = 0})
               /\ a > 1 => EndsElement(a - 1)
          ELSE /\ a > 1
               /\ log[a - 1].lvl = log[a].lvl - 1
               /\ log[a - 1].i = log[a].i
               /\ ~EndsElement(a - 1)

\* C9's case: a chain of two wrappers is being driven and is at its second
\* element.
NoWorkUntilDrivenWitness ==
    /\ Len(chain) = 2
    /\ term.kind # "none"
    /\ idx = 2
    /\ pc = "yield"
    /\ level = 2

\* C10. On every s, f, p: ToSlice(IterMap(FromSlice(s), f)) = Map(s, f),
\* ToSlice(IterFilter(FromSlice(s), p)) = Filter(s, p), and
\* IterFind(FromSlice(s), p) returns what Find(s, p) returns.
LazyAgreesWithEager ==
    pc = "done" =>
       /\ (Len(chain) = 1 /\ chain[1].kind = "map" /\ term.kind = "ToSlice")
             => acc = Map(slice, chain[1].fn)
       /\ (Len(chain) = 1 /\ chain[1].kind = "filter" /\ term.kind = "ToSlice")
             => acc = Filter(slice, chain[1].fn)
       /\ (chain = <<>> /\ term.kind = "IterFind")
             => found = Find(slice, term.fn)

\* C10's case: ToSlice(IterMap(FromSlice(s), f)) has returned for an s of
\* MaxLen elements.
LazyAgreesWithEagerWitness ==
    /\ pc = "done"
    /\ Len(chain) = 1
    /\ chain[1].kind = "map"
    /\ term.kind = "ToSlice"
    /\ Len(slice) >= 2

====
